---- MODULE Spec2Model ----
(***************************************************************************)
(* Model of the Minesweeper inference engine of src/minesweeper.py:        *)
(* Sentence, MinesweeperAI.add_knowledge and the closure it runs           *)
(* (updateKnowledge, removeEmpties, removeDupes, removeObvious,            *)
(* recalcProb), driven by true reports of a fixed board.                   *)
(*                                                                         *)
(* A Sentence object is a record [cells, count].  The knowledge list is a  *)
(* sequence of such records; a Python reference to a Sentence is a record  *)
(* [ref, val]: ref > 0 is the position of the object in the knowledge      *)
(* list (the object is mutated by mark_mine / mark_safe), ref = 0 is an    *)
(* object that is not stored in the list (it is never mutated).            *)
(***************************************************************************)
EXTENDS Integers, FiniteSets, Sequences, TLC

\* Grid of the modelled game (MinesweeperAI.__init__ height, width).
Height == 2
Width == 3
\* Largest number of mines on the ground-truth board.
MaxMines == 3
\* A wider grid, on which two reports can share cells without the reported
\* cells being neighbours, and the largest number of mines on it.
WideWidth == 4
MaxWideMines == 2
\* Inputs of make_calc_move: how many cells can have a probs entry, and the
\* largest denominator of a value.
MaxProbCells == 4
MaxDen == 2
\* Longest knowledge list followed when add_knowledge is given contradictory
\* input.
MaxSentences == 8

VARIABLES
    board,        \* Minesweeper.mines: the ground truth, fixed for a game
    width,        \* MinesweeperAI.width and Minesweeper.width, fixed at construction
    knowledge,    \* MinesweeperAI.knowledge
    mines,        \* MinesweeperAI.mines
    safes,        \* MinesweeperAI.safes
    moves_made,   \* MinesweeperAI.moves_made
    probs,        \* MinesweeperAI.probs: cell -> <<numerator, denominator>>
    pc,           \* "idle": no call in progress; "update": inside updateKnowledge
    sentence,     \* updateKnowledge: its argument
    newSentence,  \* updateKnowledge: local newSentence
    changesMade,  \* updateKnowledge: local changesMade
    allSafes,     \* updateKnowledge: local allSafes
    allMines,     \* updateKnowledge: local allMines
    i,            \* updateKnowledge: position of the for loop in the list
    built,        \* add_knowledge: the cell and the sentence it built for it
    kbAtAppend,   \* add_knowledge: the sentences in the list when it appended
    move,         \* runner.py: move, None or the cell chosen in this iteration
    consulted,    \* runner.py: the selector calls of the AI step, in call order
    lost,         \* runner.py: lost
    automate,     \* runner.py: automate
    revealed,     \* runner.py: revealed
    checked,      \* runner.py: checked, the list recursive_add appends to
    calls         \* ghost: the add_knowledge calls of this iteration, <<cell, count>>

\* The variables of the driver (runner.py).
driver == <<move, consulted, lost, automate, revealed, checked, calls>>

vars == <<board, width, knowledge, mines, safes, moves_made, probs, pc, sentence,
          newSentence, changesMade, allSafes, allMines, i, built, kbAtAppend,
          driver>>

\* Python's None: the value of move that is no cell.  (move = False, which
\* the driver also uses for "no move", is not told apart from it.)
None == <<>>

Cells == (0 .. Height - 1) \X (0 .. width - 1)

Range(seq) == {seq[k] : k \in DOMAIN seq}

\* The 3 x 3 block of coordinates around a cell, in bounds or not.
Block(cell) == ((cell[1] - 1) .. (cell[1] + 1)) \X ((cell[2] - 1) .. (cell[2] + 1))

InBounds(n) == n[1] >= 0 /\ n[1] < Height /\ n[2] >= 0 /\ n[2] < width

\* Minesweeper.nearby_mines: the in-bounds neighbours and the mines among them.
nearby_neighbors(cell) == {n \in Block(cell) : n # cell /\ InBounds(n)}

nearby_mines(b, cell) == Cardinality({n \in nearby_neighbors(cell) : n \in b})

\* Sentence.__init__
Sentence(cells, count) == [cells |-> cells, count |-> count]

NoRef == [ref |-> 0, val |-> Sentence({}, 0)]

\* Sentence.known_mines
known_mines_AtLeast(s) ==
    IF Cardinality(s.cells) >= s.count /\ s.count # 0 THEN s.cells ELSE {}

known_mines(s) ==
    IF Cardinality(s.cells) = s.count /\ s.count # 0 THEN s.cells ELSE {}

\* Sentence.known_safes
known_safes(s) == IF s.count = 0 THEN s.cells ELSE {}

\* Sentence.mark_mine
Sentence_mark_mine_NoDecrement(s, cell) ==
    IF cell \in s.cells THEN Sentence(s.cells \ {cell}, s.count) ELSE s

Sentence_mark_mine(s, cell) ==
    IF cell \in s.cells THEN Sentence(s.cells \ {cell}, s.count - 1) ELSE s

\* Sentence.mark_safe
Sentence_mark_safe_KeepLast(s, cell) ==
    IF cell \in s.cells /\ Cardinality(s.cells) > 1
    THEN Sentence(s.cells \ {cell}, s.count) ELSE s

Sentence_mark_safe(s, cell) ==
    IF cell \in s.cells THEN Sentence(s.cells \ {cell}, s.count) ELSE s

\* dict.pop(cell, None)
Pop(p, cell) == [c \in (DOMAIN p) \ {cell} |-> p[c]]

\* MinesweeperAI.mark_mine, on kb = [knowledge, mines, safes, probs]
mark_mine_KeepProbs(kb, cell) ==
    [kb EXCEPT !.mines = @ \cup {cell},
               !.knowledge = [k \in DOMAIN @ |-> Sentence_mark_mine(@[k], cell)]]

mark_mine(kb, cell) ==
    [kb EXCEPT !.mines = @ \cup {cell},
               !.probs = Pop(@, cell),
               !.knowledge = [k \in DOMAIN @ |-> Sentence_mark_mine(@[k], cell)]]

\* MinesweeperAI.mark_safe
mark_safe(kb, cell) ==
    [kb EXCEPT !.safes = @ \cup {cell},
               !.probs = Pop(@, cell),
               !.knowledge = [k \in DOMAIN @ |-> Sentence_mark_safe(@[k], cell)]]

\* "for mine in allMines: self.mark_mine(mine)"
RECURSIVE mark_mines(_, _)
mark_mines(kb, S) ==
    IF S = {} THEN kb
    ELSE LET c == CHOOSE c \in S : TRUE
         IN mark_mines(mark_mine(kb, c), S \ {c})

\* "for safe in allSafes: self.mark_safe(safe)"
RECURSIVE mark_safes(_, _)
mark_safes(kb, S) ==
    IF S = {} THEN kb
    ELSE LET c == CHOOSE c \in S : TRUE
         IN mark_safes(mark_safe(kb, c), S \ {c})

\* MinesweeperAI.getNeighbors
getNeighbors_NoAdjust(kb, cell, count) ==
    Sentence({n \in Block(cell) : InBounds(n) /\ n \notin kb.mines
                                   /\ n \notin kb.safes /\ n # cell},
             count)

getNeighbors(kb, cell, count) ==
    Sentence({n \in Block(cell) : InBounds(n) /\ n \notin kb.mines
                                   /\ n \notin kb.safes /\ n # cell},
             count - Cardinality({n \in Block(cell) : n \in kb.mines}))

\* The knowledge-base part of a frame.
KB(f) == [knowledge |-> f.knowledge, mines |-> f.mines, safes |-> f.safes,
          probs |-> f.probs]

WithKB(f, kb) == [f EXCEPT !.knowledge = kb.knowledge, !.mines = kb.mines,
                           !.safes = kb.safes, !.probs = kb.probs]

\* "newSentence not in self.knowledge" (list membership by Sentence.__eq__)
NotInKnowledge(d, K) == d \notin Range(K)

\* updateKnowledge, lines 235-239 and 244-248: the derived sentence becomes
\* newSentence, and is appended only when no equal sentence is in the list.
Derive(f, d) ==
    IF NotInKnowledge(d, f.knowledge)
    THEN [f EXCEPT !.changesMade = TRUE,
                   !.knowledge = Append(@, d),
                   !.newSentence = [ref |-> Len(f.knowledge) + 1, val |-> d]]
    ELSE [f EXCEPT !.newSentence = [ref |-> 0, val |-> d]]

\* updateKnowledge, one iteration of "for s in self.knowledge" (the list
\* grows while it is iterated; the iterator is a position in it).
LoopBody_NoElif(f) ==
    LET s == f.knowledge[f.i]
        sen == f.sentence.val
        next == [f EXCEPT !.i = @ + 1]
    IN IF s = sen THEN next
       ELSE LET g == IF sen.cells \subseteq s.cells
                     THEN Derive(next, Sentence(s.cells \ sen.cells,
                                                s.count - sen.count))
                     ELSE next
            IN [g EXCEPT !.allSafes = @ \cup known_safes(s),
                         !.allMines = @ \cup known_mines(s)]

LoopBody(f) ==
    LET s == f.knowledge[f.i]
        sen == f.sentence.val
        next == [f EXCEPT !.i = @ + 1]
    IN IF s = sen THEN next
       ELSE LET g == IF sen.cells \subseteq s.cells
                     THEN Derive(next, Sentence(s.cells \ sen.cells,
                                                s.count - sen.count))
                     ELSE IF s.cells \subseteq sen.cells
                     THEN Derive(next, Sentence(sen.cells \ s.cells,
                                                sen.count - s.count))
                     ELSE next
            IN [g EXCEPT !.allSafes = @ \cup known_safes(s),
                         !.allMines = @ \cup known_mines(s)]

\* updateKnowledge, lines 253-261: the marks after the loop.
MarksChange_Always(S, M) == Cardinality(S) >= 0 \/ Cardinality(M) >= 0

MarksChange(S, M) == S # {} \/ M # {}

ApplyMarks(f) ==
    LET kb == mark_mines(mark_safes(KB(f), f.allSafes), f.allMines)
    IN [WithKB(f, kb) EXCEPT
          !.changesMade = @ \/ MarksChange(f.allSafes, f.allMines)]

\* A reference after the list was mutated in place: an object stored in the
\* list has the list's value, an object outside it kept its own.
Refresh(r, K) == IF r.ref > 0 THEN [ref |-> r.ref, val |-> K[r.ref]] ELSE r

\* updateKnowledge, lines 223-227: a fresh frame for the call on sentence r.
Enter(f, r) ==
    [f EXCEPT !.sentence = Refresh(r, f.knowledge),
              !.newSentence = Refresh(r, f.knowledge),
              !.changesMade = FALSE, !.allSafes = {}, !.allMines = {}, !.i = 1]

\* MinesweeperAI.removeEmpties
removeEmpties(K) == SelectSeq(K, LAMBDA x : x # Sentence({}, 0))

\* MinesweeperAI.removeDupes
RECURSIVE removeDupesFrom(_, _, _)
removeDupesFrom(K, k, unique) ==
    IF k > Len(K) THEN unique
    ELSE removeDupesFrom(K, k + 1,
                         IF K[k] \notin Range(unique) THEN Append(unique, K[k])
                         ELSE unique)

removeDupes(K) == removeDupesFrom(K, 1, <<>>)

\* MinesweeperAI.removeObvious: one pass over the list, in list order; each
\* sentence is read when the pass reaches it.
SweepSentence_MinesOnly(kb, s) ==
    IF s.count = Cardinality(s.cells) THEN mark_mines(kb, s.cells) ELSE kb

SweepSentence(kb, s) ==
    IF s.count = 0 /\ Cardinality(s.cells) # 0 THEN mark_safes(kb, s.cells)
    ELSE IF s.count = Cardinality(s.cells) THEN mark_mines(kb, s.cells)
    ELSE kb

RECURSIVE removeObviousFrom(_, _)
removeObviousFrom(kb, k) ==
    IF k > Len(kb.knowledge) THEN kb
    ELSE removeObviousFrom(SweepSentence(kb, kb.knowledge[k]), k + 1)

removeObvious(kb) == removeObviousFrom(kb, 1)

\* "for safe in allSafes: self.mark_safe(safe)" and "for mine in allMines:
\* self.mark_mine(mine)" with the set iterated in every possible order: the
\* set of the results.
RECURSIVE mark_safes_AnyOrder(_, _)
mark_safes_AnyOrder(kb, S) ==
    IF S = {} THEN {kb}
    ELSE UNION {mark_safes_AnyOrder(mark_safe(kb, c), S \ {c}) : c \in S}

RECURSIVE mark_mines_AnyOrder(_, _)
mark_mines_AnyOrder(kb, S) ==
    IF S = {} THEN {kb}
    ELSE UNION {mark_mines_AnyOrder(mark_mine(kb, c), S \ {c}) : c \in S}

\* updateKnowledge, lines 253-261, with every iteration order of allSafes
\* and allMines.
ApplyMarks_AnyOrder(f) ==
    {[WithKB(f, kb) EXCEPT
         !.changesMade = @ \/ MarksChange(f.allSafes, f.allMines)] :
       kb \in UNION {mark_mines_AnyOrder(k1, f.allMines) :
                       k1 \in mark_safes_AnyOrder(KB(f), f.allSafes)}}

\* removeObvious with every iteration order of cellsCopy, for each sentence.
SweepSentence_AnyOrder(kb, s) ==
    IF s.count = 0 /\ Cardinality(s.cells) # 0
    THEN mark_safes_AnyOrder(kb, s.cells)
    ELSE IF s.count = Cardinality(s.cells) THEN mark_mines_AnyOrder(kb, s.cells)
    ELSE {kb}

RECURSIVE removeObviousFrom_AnyOrder(_, _)
removeObviousFrom_AnyOrder(kbs, k) ==
    IF \A kb \in kbs : k > Len(kb.knowledge) THEN kbs
    ELSE removeObviousFrom_AnyOrder(
             UNION {IF k > Len(kb.knowledge) THEN {kb}
                    ELSE SweepSentence_AnyOrder(kb, kb.knowledge[k]) : kb \in kbs},
             k + 1)

removeObvious_AnyOrder(kb) == removeObviousFrom_AnyOrder({kb}, 1)

\* a > b for ratios <<numerator, denominator>> with positive denominators
Gt(a, b) == a[1] * b[2] > b[1] * a[2]

\* recalcSentence that takes an entry of value 0 for a cell without an
\* estimate and gives it the sentence's ratio.
recalcSentence_FromUnset(p, s) ==
    IF s.cells = {} THEN p
    ELSE LET prob == <<s.count, Cardinality(s.cells)>>
         IN [c \in DOMAIN p |->
               IF c \in s.cells /\ (p[c][1] = 0 \/ Gt(p[c], prob)) THEN prob
               ELSE p[c]]

\* MinesweeperAI.recalcProb, the body of its loop for one sentence
recalcSentence(p, s) ==
    IF s.cells = {} THEN p
    ELSE LET prob == <<s.count, Cardinality(s.cells)>>
         IN [c \in DOMAIN p |->
               IF c \in s.cells /\ p[c][1] # 0 /\ Gt(p[c], prob) THEN prob
               ELSE p[c]]

RECURSIVE recalcProbFrom(_, _, _)
recalcProbFrom(p, K, k) ==
    IF k > Len(K) THEN p ELSE recalcProbFrom(recalcSentence(p, K[k]), K, k + 1)

\* MinesweeperAI.recalcProb
recalcProb(kb) == [kb EXCEPT !.probs = recalcProbFrom(@, kb.knowledge, 1)]

\* add_knowledge, lines 320-323: what follows the updateKnowledge call.
Stabilize(kb) ==
    recalcProb(removeObvious(
        [kb EXCEPT !.knowledge = removeDupes(removeEmpties(@))]))

Frame ==
    [knowledge |-> knowledge, mines |-> mines, safes |-> safes, probs |-> probs,
     sentence |-> sentence, newSentence |-> newSentence,
     changesMade |-> changesMade, allSafes |-> allSafes, allMines |-> allMines,
     i |-> i]

SetFrame(f) ==
    /\ knowledge' = f.knowledge
    /\ mines' = f.mines
    /\ safes' = f.safes
    /\ probs' = f.probs
    /\ sentence' = f.sentence
    /\ newSentence' = f.newSentence
    /\ changesMade' = f.changesMade
    /\ allSafes' = f.allSafes
    /\ allMines' = f.allMines
    /\ i' = f.i

\* No call in progress: the locals of updateKnowledge do not exist.
NoFrame(kb) ==
    [knowledge |-> kb.knowledge, mines |-> kb.mines, safes |-> kb.safes,
     probs |-> kb.probs, sentence |-> NoRef, newSentence |-> NoRef,
     changesMade |-> FALSE, allSafes |-> {}, allMines |-> {}, i |-> 0]

\* Minesweeper.__init__ and MinesweeperAI.__init__ for a grid of Width columns
\* and a board with at most MaxMines mines.
Init ==
    /\ width = Width
    /\ board \in {b \in SUBSET Cells : Cardinality(b) <= MaxMines}
    /\ knowledge = <<>>
    /\ mines = {}
    /\ safes = {}
    /\ moves_made = {}
    /\ probs = [c \in Cells |-> <<0, 1>>]
    /\ pc = "idle"
    /\ sentence = NoRef
    /\ newSentence = NoRef
    /\ changesMade = FALSE
    /\ allSafes = {}
    /\ allMines = {}
    /\ i = 0
    /\ built = [cell |-> <<0, 0>>, cells |-> {}, count |-> 0]
    /\ kbAtAppend = {}
    /\ move = None
    /\ consulted = <<>>
    /\ lost = FALSE
    /\ automate = FALSE
    /\ revealed = {}
    /\ checked = <<>>
    /\ calls = <<>>

\* add_knowledge, lines 312-319: up to the entry into updateKnowledge.
AddKnowledge(cell, count) ==
    /\ pc = "idle"
    /\ LET kb0 == [KB(Frame) EXCEPT !.probs = Pop(@, cell)]
           kb1 == mark_safe(kb0, cell)
           N == getNeighbors(kb1, cell, count)
           kb2 == [kb1 EXCEPT !.knowledge = Append(@, N)]
       IN /\ SetFrame(Enter(NoFrame(kb2),
                            [ref |-> Len(kb2.knowledge), val |-> N]))
          /\ built' = [cell |-> cell, cells |-> N.cells, count |-> N.count]
          /\ kbAtAppend' = Range(kb1.knowledge)
    /\ moves_made' = moves_made \cup {cell}
    /\ pc' = "update"
    /\ UNCHANGED <<board, width>>

\* The driver's report (runner.py recursive_add): a cell that is not a mine,
\* with the board's count of mined neighbours.
Report ==
    /\ \E cell \in Cells \ board : AddKnowledge(cell, nearby_mines(board, cell))
    /\ UNCHANGED driver

\* updateKnowledge: one iteration of its loop.
UpdateLoop ==
    /\ pc = "update"
    /\ i <= Len(knowledge)
    /\ SetFrame(LoopBody(Frame))
    /\ UNCHANGED <<board, width, moves_made, pc, built, kbAtAppend, driver>>

\* updateKnowledge: the loop is over, something changed: lines 253-264, the
\* marks and the call of itself on newSentence.
UpdateRecurse ==
    /\ pc = "update"
    /\ i > Len(knowledge)
    /\ LET f == ApplyMarks(Frame)
       IN /\ f.changesMade
          /\ SetFrame(Enter(f, f.newSentence))
    /\ UNCHANGED <<board, width, moves_made, pc, built, kbAtAppend, driver>>

\* updateKnowledge: the loop is over, nothing changed: it returns, and
\* add_knowledge runs removeEmpties, removeDupes, removeObvious, recalcProb.
UpdateReturn ==
    /\ pc = "update"
    /\ i > Len(knowledge)
    /\ LET f == ApplyMarks(Frame)
       IN /\ ~f.changesMade
          /\ SetFrame(NoFrame(Stabilize(KB(f))))
    /\ pc' = "idle"
    /\ UNCHANGED <<board, width, moves_made, built, kbAtAppend, driver>>

Next == Report \/ UpdateLoop \/ UpdateRecurse \/ UpdateReturn

Spec == Init /\ [][Next]_vars

\* The same construction for a grid of WideWidth columns.
InitWide ==
    /\ width = WideWidth
    /\ board \in {b \in SUBSET Cells : Cardinality(b) <= MaxWideMines}
    /\ knowledge = <<>>
    /\ mines = {}
    /\ safes = {}
    /\ moves_made = {}
    /\ probs = [c \in Cells |-> <<0, 1>>]
    /\ pc = "idle"
    /\ sentence = NoRef
    /\ newSentence = NoRef
    /\ changesMade = FALSE
    /\ allSafes = {}
    /\ allMines = {}
    /\ i = 0
    /\ built = [cell |-> <<0, 0>>, cells |-> {}, count |-> 0]
    /\ kbAtAppend = {}
    /\ move = None
    /\ consulted = <<>>
    /\ lost = FALSE
    /\ automate = FALSE
    /\ revealed = {}
    /\ checked = <<>>
    /\ calls = <<>>

WideSpec == InitWide /\ [][Next]_vars

\* A step of a running updateKnowledge call.
UpdateStep == UpdateLoop \/ UpdateRecurse \/ UpdateReturn

\* The scheduling of a running call: once add_knowledge has called
\* updateKnowledge, Python executes it step after step (single-threaded, no
\* suspension).  This is weak fairness of UpdateStep,
\*     WF_vars(UpdateStep) ==
\*         []<>(~ENABLED <<UpdateStep>>_vars) \/ []<><<UpdateStep>>_vars,
\* written with the state predicate pc = "update" in the place of
\* ENABLED <<UpdateStep>>_vars: where pc = "update" exactly one of the three
\* steps is possible (i <= Len(knowledge), or i > Len(knowledge) with or
\* without changes) and it changes i; where pc = "idle" none is.  Nothing is
\* assumed about the driver: it may stop reporting cells at any time.
RunsToCompletion == []<>(pc # "update") \/ []<><<UpdateStep>>_vars

LiveSpec == Init /\ [][Next]_vars /\ RunsToCompletion

\* Cells next to the grid, outside it.
OutOfBounds == ((-1 .. Height) \X (-1 .. width)) \ Cells

\* The object has been used as intended so far: what it holds is true of
\* the board, and only cells of the grid were reported.
Sound ==
    /\ mines \subseteq board
    /\ safes \subseteq Cells \ board
    /\ \A s \in Range(knowledge) : s.count = Cardinality(s.cells \cap board)

\* A caller that reports too small a count for a cell that is not a mine.
Misreport ==
    /\ \E cell \in Cells \ board :
          \E count \in 0 .. nearby_mines(board, cell) - 1 :
              AddKnowledge(cell, count)
    /\ UNCHANGED driver

\* A caller that reports the board's count for a cell outside the grid, or
\* for a cell the object holds as a mine.
Misuse ==
    /\ \E cell \in OutOfBounds \cup mines :
          AddKnowledge(cell, nearby_mines(board, cell))
    /\ UNCHANGED driver

\* add_knowledge under calls that break its contract: proper use up to the
\* first such call, and that call run to its end.  On contradictory input
\* the list can grow without end; the runs are cut at MaxSentences.
ErrNext ==
    \/ Sound /\ Report
    \/ Sound /\ Misreport
    \/ Sound /\ Misuse
    \/ UpdateStep /\ Len(knowledge') <= MaxSentences

ErrSpec == Init /\ [][ErrNext]_vars

\* MinesweeperAI.updateKnowledge run to its end: the loop, the marks, and
\* the call of itself on newSentence while changesMade.
RECURSIVE updateKnowledge(_)
updateKnowledge(f) ==
    IF f.i <= Len(f.knowledge) THEN updateKnowledge(LoopBody(f))
    ELSE LET g == ApplyMarks(f)
         IN IF g.changesMade THEN updateKnowledge(Enter(g, g.newSentence))
            ELSE g

\* The closure run again on the k-th sentence of the list, without new
\* evidence: updateKnowledge, removeEmpties, removeDupes, removeObvious.
Reclose(k) ==
    LET f == updateKnowledge(Enter(Frame, [ref |-> k, val |-> knowledge[k]]))
    IN removeObvious([KB(f) EXCEPT !.knowledge = removeDupes(removeEmpties(@))])

\* add_knowledge has been called and has returned.
Returned == pc = "idle" /\ moves_made # {}

StrictSubset(A, B) == A \subseteq B /\ A # B

----------------------------------------------------------------------------

\* The MinesweeperAI object: the fields a method can read and write.
AI == [knowledge |-> knowledge, mines |-> mines, safes |-> safes,
       moves_made |-> moves_made, probs |-> probs]

SetAI(ai) ==
    /\ knowledge' = ai.knowledge
    /\ mines' = ai.mines
    /\ safes' = ai.safes
    /\ moves_made' = ai.moves_made
    /\ probs' = ai.probs

\* A call of a move selector: the value it returns and the object after it.
\* The selectors choose with set.pop() and random.choice(): every element
\* they can choose from is a possible outcome.
Outcome(ret, ai) == [ret |-> ret, ai |-> ai]

\* MinesweeperAI.make_safe_move
make_safe_move_InPlace(ai) ==
    LET safeCells == ai.safes \ ai.moves_made
    IN IF safeCells # {}
       THEN {Outcome(c, [ai EXCEPT !.safes = safeCells \ {c}]) : c \in safeCells}
       ELSE {Outcome(None, [ai EXCEPT !.safes = safeCells])}

make_safe_move(ai) ==
    LET safeCells == ai.safes \ ai.moves_made
    IN IF safeCells # {} THEN {Outcome(c, ai) : c \in safeCells}
       ELSE {Outcome(None, ai)}

\* MinesweeperAI.make_random_move
make_random_move_AnyCell(ai) ==
    IF Cardinality(Cells \ ai.moves_made) > 0
    THEN {Outcome(c, ai) : c \in Cells \ ai.moves_made}
    ELSE {Outcome(None, ai)}

make_random_move(ai) ==
    IF Cardinality(DOMAIN ai.probs) > 0
    THEN {Outcome(c, ai) : c \in DOMAIN ai.probs}
    ELSE {Outcome(None, ai)}

\* a = b for ratios <<numerator, denominator>> with positive denominators
SameRatio(a, b) == a[1] * b[2] = b[1] * a[2]

\* len(list(set(list(self.probs.values())))): the number of distinct values
\* of probs (equal numbers are one element of a Python set).
DistinctValues(p) ==
    Cardinality({{d \in DOMAIN p : SameRatio(p[c], p[d])} : c \in DOMAIN p})

\* MinesweeperAI.make_calc_move: movesList sorted by value has a smallest
\* value first; bestMoves are the entries with that value.
make_calc_move_TwoValues(ai) ==
    IF Cardinality(DOMAIN ai.probs) > 0 /\ DistinctValues(ai.probs) >= 2
    THEN {Outcome(c, ai) : c \in {c \in DOMAIN ai.probs :
                            \A d \in DOMAIN ai.probs : ~Gt(ai.probs[c], ai.probs[d])}}
    ELSE {Outcome(None, ai)}

make_calc_move(ai) ==
    IF Cardinality(DOMAIN ai.probs) > 0 /\ DistinctValues(ai.probs) > 2
    THEN {Outcome(c, ai) : c \in {c \in DOMAIN ai.probs :
                            \A d \in DOMAIN ai.probs : ~Gt(ai.probs[c], ai.probs[d])}}
    ELSE {Outcome(None, ai)}

\* Minesweeper.nearby_mines: the list neighbors, in the order of its loops.
neighbors(cell) ==
    SelectSeq([k \in 1 .. 9 |-> <<cell[1] + ((k - 1) \div 3) - 1,
                                  cell[2] + ((k - 1) % 3) - 1>>],
              LAMBDA n : n # cell /\ InBounds(n))

\* MinesweeperAI.add_knowledge, from the call to the return.
add_knowledge(ai, cell, count) ==
    LET kb0 == [knowledge |-> ai.knowledge, mines |-> ai.mines,
                safes |-> ai.safes, probs |-> Pop(ai.probs, cell)]
        kb1 == mark_safe(kb0, cell)
        N == getNeighbors(kb1, cell, count)
        kb2 == [kb1 EXCEPT !.knowledge = Append(@, N)]
        f == updateKnowledge(Enter(NoFrame(kb2),
                                   [ref |-> Len(kb2.knowledge), val |-> N]))
        kb3 == Stabilize(KB(f))
    IN [knowledge |-> kb3.knowledge, mines |-> kb3.mines, safes |-> kb3.safes,
        moves_made |-> ai.moves_made \cup {cell}, probs |-> kb3.probs]

\* runner.py recursive_add on the game board b; st holds revealed, ai and
\* checked.  Visit is its loop over the neighbours.
RECURSIVE recursive_add(_, _, _), Visit(_, _, _)
\* recursive_add that appends the cell to checked only in the branch that
\* visits the neighbours.
recursive_add_LateAppend(mv, b, st) ==
    LET nearby == nearby_mines(b, mv)
        st1 == [checked |-> IF nearby = 0 THEN Append(st.checked, mv)
                                          ELSE st.checked,
                calls |-> Append(st.calls, <<mv, nearby>>),
                revealed |-> st.revealed \cup {mv},
                ai |-> add_knowledge(st.ai, mv, nearby)]
    IN IF nearby = 0 THEN Visit(neighbors(mv), b, st1) ELSE st1

recursive_add(mv, b, st) ==
    LET nearby == nearby_mines(b, mv)
        st1 == [checked |-> Append(st.checked, mv),
                calls |-> Append(st.calls, <<mv, nearby>>),
                revealed |-> st.revealed \cup {mv},
                ai |-> add_knowledge(st.ai, mv, nearby)]
    IN IF nearby = 0 THEN Visit(neighbors(mv), b, st1) ELSE st1

Visit(ns, b, st) ==
    IF ns = <<>> THEN st
    ELSE IF Head(ns) \notin Range(st.checked)
         THEN Visit(Tail(ns), b, recursive_add(Head(ns), b, st))
         ELSE Visit(Tail(ns), b, st)

\* One selector call of the AI step: which selector, and what it returned.
Called(tier, ret) == [tier |-> tier, ret |-> ret]

\* runner.py, "Perform AI move if needed": the selectors in the order the
\* driver calls them.  Each outcome is the move, the calls made, and the
\* object after them.
AIStep_GuessFirst(ai) ==
    UNION {IF o1.ret # None
           THEN {[move |-> o1.ret, consulted |-> <<Called("random", o1.ret)>>,
                  ai |-> o1.ai]}
           ELSE UNION {IF o2.ret # None
                       THEN {[move |-> o2.ret,
                              consulted |-> <<Called("random", o1.ret),
                                              Called("calc", o2.ret)>>,
                              ai |-> o2.ai]}
                       ELSE {[move |-> o3.ret,
                              consulted |-> <<Called("random", o1.ret),
                                              Called("calc", o2.ret),
                                              Called("safe", o3.ret)>>,
                              ai |-> o3.ai] : o3 \in make_safe_move(o2.ai)}
                       : o2 \in make_calc_move(o1.ai)}
           : o1 \in make_random_move(ai)}

AIStep(ai) ==
    UNION {IF o1.ret # None
           THEN {[move |-> o1.ret, consulted |-> <<Called("safe", o1.ret)>>,
                  ai |-> o1.ai]}
           ELSE UNION {IF o2.ret # None
                       THEN {[move |-> o2.ret,
                              consulted |-> <<Called("safe", o1.ret),
                                              Called("calc", o2.ret)>>,
                              ai |-> o2.ai]}
                       ELSE {[move |-> o3.ret,
                              consulted |-> <<Called("safe", o1.ret),
                                              Called("calc", o2.ret),
                                              Called("random", o3.ret)>>,
                              ai |-> o3.ai] : o3 \in make_random_move(o2.ai)}
                       : o2 \in make_calc_move(o1.ai)}
           : o1 \in make_safe_move(ai)}

\* No AI step in this iteration: move keeps the value the event handler gave.
NoAIStep(mv, ai) == {[move |-> mv, consulted |-> <<>>, ai |-> ai]}

\* After without "automate = False" where no selector has a move left.
After_NoStop(s, auto) ==
    IF s.move # None /\ s.move \in board
    THEN [lost |-> TRUE, automate |-> FALSE, ai |-> s.ai,
          revealed |-> revealed, checked |-> checked, calls |-> <<>>]
    ELSE IF s.move # None
         THEN LET st == recursive_add(s.move, board,
                            [checked |-> <<>>, calls |-> <<>>,
                             revealed |-> revealed,
                             ai |-> s.ai])
              IN [lost |-> lost, automate |-> auto, ai |-> st.ai,
                  revealed |-> st.revealed, checked |-> st.checked,
                  calls |-> st.calls]
         ELSE [lost |-> lost, automate |-> auto, ai |-> s.ai,
               revealed |-> revealed, checked |-> checked, calls |-> <<>>]

\* runner.py, "Make move and update AI knowledge", for the outcome s of the
\* AI step; auto is automate after the event handler.  After is what the
\* iteration leaves in lost, automate, ai, revealed and checked, and the
\* add_knowledge calls it made.
After(s, auto) ==
    IF s.move # None /\ s.move \in board
    THEN [lost |-> TRUE, automate |-> FALSE, ai |-> s.ai,
          revealed |-> revealed, checked |-> checked, calls |-> <<>>]
    ELSE LET stop == s.consulted # <<>> /\ s.move = None
         IN IF s.move # None
            THEN LET st == recursive_add(s.move, board,
                               [checked |-> <<>>, calls |-> <<>>,
                                revealed |-> revealed,
                                ai |-> s.ai])
                 IN [lost |-> lost, automate |-> auto /\ ~stop, ai |-> st.ai,
                     revealed |-> st.revealed, checked |-> st.checked,
                     calls |-> st.calls]
            ELSE [lost |-> lost, automate |-> auto /\ ~stop, ai |-> s.ai,
                  revealed |-> revealed, checked |-> checked, calls |-> <<>>]

MakeMove(s, auto) ==
    \E a \in {After(s, auto)} :
       /\ move' = s.move
       /\ consulted' = s.consulted
       /\ lost' = a.lost
       /\ automate' = a.automate
       /\ SetAI(a.ai)
       /\ revealed' = a.revealed
       /\ checked' = a.checked
       /\ calls' = a.calls
       /\ UNCHANGED <<board, width, pc, sentence, newSentence, changesMade,
                      allSafes, allMines, i, built, kbAtAppend>>

\* One iteration of the main loop of runner.py in which the event handler
\* left move = mv, buttonClicked = clicked and automate = auto.
Iteration(mv, clicked, auto) ==
    /\ pc = "idle"
    /\ \E s \in (IF auto \/ clicked THEN AIStep(AI) ELSE NoAIStep(mv, AI)) :
          MakeMove(s, auto)

\* No event in the queue.
NoEvent == Iteration(None, FALSE, automate)

\* A click on the "AI Move" button.
ClickAI == Iteration(None, ~lost, automate)

\* A click on the "Autoplay" button.
ClickAuto == Iteration(None, FALSE, automate \/ (board # mines /\ ~lost))

\* A click on a cell of the board.
ClickCell ==
    \E c \in Cells :
        Iteration(IF ~lost /\ c \notin revealed THEN c ELSE None, FALSE, automate)

\* A click on the "Reset" button: a new game with as many mines (MINES) at
\* random places, and a new MinesweeperAI.
ClickReset ==
    /\ pc = "idle"
    /\ board' \in {b \in SUBSET Cells : Cardinality(b) = Cardinality(board)}
    /\ SetAI([knowledge |-> <<>>, mines |-> {}, safes |-> {},
              moves_made |-> {}, probs |-> [c \in Cells |-> <<0, 1>>]])
    /\ revealed' = {}
    /\ lost' = FALSE
    /\ automate' = FALSE
    /\ move' = None
    /\ consulted' = <<>>
    /\ calls' = <<>>
    /\ UNCHANGED <<width, pc, sentence, newSentence, changesMade, allSafes, allMines,
                   i, built, kbAtAppend, checked>>

DriverNext == NoEvent \/ ClickAI \/ ClickAuto \/ ClickCell \/ ClickReset

DriverSpec == Init /\ [][DriverNext]_vars

\* An iteration with an empty event queue would change nothing: the state
\* predicate ~ENABLED <<NoEvent>>_vars, computed with After.
NoEventIdle ==
    \/ pc # "idle"
    \/ \A s \in (IF automate THEN AIStep(AI) ELSE NoAIStep(None, AI)) :
          /\ s.move = move
          /\ s.consulted = consulted
          /\ After(s, automate) = [lost |-> lost, automate |-> automate,
                                   ai |-> AI, revealed |-> revealed,
                                   checked |-> checked, calls |-> calls]

\* The scheduling of the main loop: "while True" never blocks
\* (pygame.event.get() returns at once, with or without events), so an
\* iteration with an empty event queue is taken again and again for as long
\* as it would change the state.  This is weak fairness of NoEvent,
\*     WF_vars(NoEvent) ==
\*         []<>(~ENABLED <<NoEvent>>_vars) \/ []<><<NoEvent>>_vars,
\* written with NoEventIdle in the place of ~ENABLED <<NoEvent>>_vars.
\* Nothing is assumed about the user: no click is ever required to happen.
MainLoopRuns == []<>NoEventIdle \/ []<><<NoEvent>>_vars

DriverLiveSpec == Init /\ [][DriverNext]_vars /\ MainLoopRuns

\* Inputs of make_calc_move: probs over some of the first MaxProbCells cells
\* of the grid, with values n / d for d up to MaxDen.
Ratios == UNION {{<<n, d>> : n \in 0 .. d} : d \in 1 .. MaxDen}

ProbCells == {c \in Cells : c[1] * width + c[2] < MaxProbCells}

InitCalc ==
    /\ width = Width
    /\ board = {}
    /\ knowledge = <<>>
    /\ mines = {}
    /\ safes = {}
    /\ moves_made = {}
    /\ probs \in UNION {[D -> Ratios] : D \in SUBSET ProbCells}
    /\ pc = "idle"
    /\ sentence = NoRef
    /\ newSentence = NoRef
    /\ changesMade = FALSE
    /\ allSafes = {}
    /\ allMines = {}
    /\ i = 0
    /\ built = [cell |-> <<0, 0>>, cells |-> {}, count |-> 0]
    /\ kbAtAppend = {}
    /\ move = None
    /\ consulted = <<>>
    /\ lost = FALSE
    /\ automate = FALSE
    /\ revealed = {}
    /\ checked = <<>>
    /\ calls = <<>>

\* One call of make_calc_move on the object.
CallCalc ==
    /\ consulted = <<>>
    /\ \E o \in make_calc_move(AI) :
          /\ move' = o.ret
          /\ SetAI(o.ai)
    /\ consulted' = <<Called("calc", move')>>
    /\ UNCHANGED <<board, width, pc, sentence, newSentence, changesMade, allSafes,
                   allMines, i, built, kbAtAppend, lost, automate, revealed,
                   checked, calls>>

CalcSpec == InitCalc /\ [][CallCalc]_vars

\* C1: soundness.  Under true reports of a fixed board, every cell in mines
\* is a mine of the board and no cell in safes is a mine of the board.
C1_Soundness == mines \subseteq board /\ safes \cap board = {}

\* C1 witness: a call has returned with a mine deduced and a safe cell
\* deduced that was never opened.
C1_Witness == Returned /\ mines # {} /\ safes \ moves_made # {}

\* C2: no cell is in both mines and safes, in any reachable state.
C2_MinesSafesDisjoint == mines \cap safes = {}

\* C2 witness: both sets hold deduced cells while a closure is running.
C2_Witness == pc = "update" /\ mines # {} /\ safes \ moves_made # {}

\* C3: whenever add_knowledge has returned, every sentence in knowledge has
\* 0 <= count <= |cells|.
C3_CountInRange ==
    Returned =>
        \A s \in Range(knowledge) : 0 <= s.count /\ s.count <= Cardinality(s.cells)

\* C3 witness: a call has returned, a mine is known, and a sentence with
\* cells and a count strictly between 0 and |cells| is in the list.
C3_Witness ==
    Returned /\ mines # {} /\
        \E s \in Range(knowledge) : 0 < s.count /\ s.count < Cardinality(s.cells)

\* C4: whenever add_knowledge has returned, no sentence in knowledge
\* contains a cell that is in mines or in safes.
C4_NoConfirmedCellInSentence ==
    Returned => \A s \in Range(knowledge) : s.cells \cap (mines \cup safes) = {}

\* C5: whenever add_knowledge has returned, no sentence in knowledge has an
\* empty cell set.
C5_NoEmptySentence == Returned => \A s \in Range(knowledge) : s.cells # {}

\* C6: whenever add_knowledge has returned, no two sentences at different
\* positions of knowledge are equal.
C6_NoDuplicates ==
    Returned =>
        \A a, b \in DOMAIN knowledge : a # b => knowledge[a] # knowledge[b]

\* C7: closure terminates.  Every updateKnowledge call made by
\* add_knowledge ends: its loop over the growing list and its recursion
\* stop, and add_knowledge returns.
C7_ClosureTerminates == (pc = "update") ~> (pc = "idle")

\* C7 witness: updateKnowledge runs on a sentence that is not stored in the
\* list (so it has called itself) and its loop has appended to the list it
\* iterates.
C7_Witness ==
    pc = "update" /\ sentence.ref = 0 /\ changesMade /\ i <= Len(knowledge)

\* C8: closure is idempotent.  Where add_knowledge has returned, running
\* the closure again on any sentence of the list changes neither the set of
\* sentences in knowledge nor mines nor safes.
C8_ClosureIdempotent ==
    Returned =>
        \A k \in DOMAIN knowledge :
            LET r == Reclose(k)
            IN /\ Range(r.knowledge) = Range(knowledge)
               /\ r.mines = mines
               /\ r.safes = safes

\* C9: subset resolution.  If the list held, when add_knowledge appended its
\* sentence N, a sentence S with one cell set a strict subset of the other,
\* then when add_knowledge returns the cells of the difference are in safes
\* if the counts differ by 0, and in mines if the counts differ by the size
\* of the difference.
Resolved(small, big) ==
    LET diff == big.cells \ small.cells
        n == big.count - small.count
    IN StrictSubset(small.cells, big.cells) =>
          /\ (n = 0 => diff \subseteq safes)
          /\ (n = Cardinality(diff) => diff \subseteq mines)

C9_SubsetResolution ==
    Returned => \A S \in kbAtAppend : Resolved(built, S) /\ Resolved(S, built)

\* C9 witness: add_knowledge has returned from a call whose sentence was a
\* strict superset of a sentence of the list with the same non-zero count,
\* so that the cells of the difference had to be resolved as safe.
C9_Witness ==
    Returned /\ \E S \in kbAtAppend :
        StrictSubset(S.cells, built.cells) /\ S.count = built.count /\ S.count > 0

LocalProbability(s) == <<s.count, Cardinality(s.cells)>>

\* C11: probability estimate.  Whenever add_knowledge has returned, for
\* every unconfirmed cell that occurs in at least one sentence of knowledge,
\* probs[cell] is the minimum of count / |cells| over the sentences that
\* contain the cell.
C11_ProbIsMinimum ==
    Returned =>
        \A c \in Cells \ (mines \cup safes) :
            LET with == {s \in Range(knowledge) : c \in s.cells}
            IN with # {} =>
                  /\ c \in DOMAIN probs
                  /\ \E m \in with :
                        /\ SameRatio(probs[c], LocalProbability(m))
                        /\ \A s \in with :
                              ~Gt(LocalProbability(m), LocalProbability(s))

\* C13: make_calc_move returns None whenever probs is empty or its values
\* take at most two distinct values; otherwise it returns a cell whose
\* probs value is the minimum over all entries of probs.
AtMostTwoValues(p) ==
    ~\E a, b, c \in DOMAIN p :
        /\ ~SameRatio(p[a], p[b])
        /\ ~SameRatio(p[a], p[c])
        /\ ~SameRatio(p[b], p[c])

C13_CalcMove ==
    consulted # <<>> =>
        IF DOMAIN probs = {} \/ AtMostTwoValues(probs)
        THEN move = None
        ELSE /\ move \in DOMAIN probs
             /\ \A d \in DOMAIN probs :
                   probs[move][1] * probs[d][2] <= probs[d][1] * probs[move][2]

\* C13 witness: make_calc_move has returned a cell, from probs with three
\* distinct values in which two cells share the smallest.
C13_Witness ==
    /\ consulted # <<>>
    /\ move # None
    /\ \E d \in DOMAIN probs : d # move /\ SameRatio(probs[d], probs[move])

\* C12: tier priority.  In an iteration with an AI step: if safes - moves_made
\* was non-empty the move played is one of its members; make_safe_move is
\* called first, make_calc_move only after make_safe_move returned None,
\* make_random_move only after make_calc_move also returned None; and the
\* step ends without a move (automate reset, no cell opened) only when all
\* three returned None.
C12_TierPriority ==
    [][consulted' # <<>> =>
          /\ safes \ moves_made # {} => move' \in safes \ moves_made
          /\ Len(consulted') <= 3
          /\ \A k \in DOMAIN consulted' :
                /\ consulted'[k].tier = <<"safe", "calc", "random">>[k]
                /\ k > 1 => consulted'[k - 1].ret = None
          /\ move' = consulted'[Len(consulted')].ret
          /\ move' = None =>
                /\ Len(consulted') = 3
                /\ \A k \in DOMAIN consulted' : consulted'[k].ret = None
                /\ ~automate'
                /\ revealed' = revealed]_vars

\* C12 witness: automated play has just played a cell that make_safe_move
\* returned.
C12_Witness ==
    /\ automate
    /\ Len(consulted) = 1
    /\ move # None
    /\ move \in revealed

C18_SelectionReadOnly ==
    \A o \in make_safe_move(AI) \cup make_calc_move(AI) \cup make_random_move(AI) :
        /\ o.ai.mines = mines
        /\ o.ai.safes = safes
        /\ o.ai.moves_made = moves_made
        /\ o.ai.knowledge = knowledge
        /\ o.ai.probs = probs

\* C18 witness: an AI step has called all three selectors, and safe cells
\* are known that have been played.
C18_Witness ==
    /\ Len(consulted) = 3
    /\ moves_made # {}
    /\ safes \ moves_made = {}
    /\ move = None

\* The cells of the grid at distance 1 of cell in the maximum norm.
Moore(cell) ==
    {n \in Cells : /\ n # cell
                   /\ n[1] - cell[1] \in {-1, 0, 1}
                   /\ n[2] - cell[2] \in {-1, 0, 1}}

\* C19: the sentence add_knowledge(cell, count) appends, for a cell not in
\* mines, has as cells the in-bounds Moore neighbours of the cell that are in
\* neither mines nor safes, and as count the reported count minus the number
\* of in-bounds neighbours in mines.
C19_AppendedSentence ==
    [][pc = "idle" /\ pc' = "update" /\ built'.cell \notin mines =>
          /\ Len(knowledge') = Len(knowledge) + 1
          /\ knowledge'[Len(knowledge')].cells =
                {n \in Moore(built'.cell) : n \notin mines /\ n \notin safes}
          /\ knowledge'[Len(knowledge')].count =
                nearby_mines(board, built'.cell)
                   - Cardinality(Moore(built'.cell) \cap mines)]_vars

\* C19 witness: a sentence has been appended for a cell with a neighbour in
\* mines and a neighbour in safes; its count is below the reported one and
\* its cells are fewer than the neighbours left after the known mines.
C19_Witness ==
    /\ pc = "update"
    /\ knowledge # <<>>
    /\ kbAtAppend # {}
    /\ built.count < nearby_mines(board, built.cell)
    /\ built.count > 0
    /\ Cardinality(built.cells) + nearby_mines(board, built.cell) - built.count
          < Cardinality(Moore(built.cell))

\* C20: fixed point of certainty extraction.  Whenever add_knowledge has
\* returned, no sentence of knowledge is trivially resolvable: none has
\* count 0 with cells, and none has a count equal to a non-zero number of
\* cells.
C20_NoTrivialSentence ==
    Returned =>
        \A s \in Range(knowledge) :
            s.cells # {} => s.count # 0 /\ s.count # Cardinality(s.cells)

\* C17: determinism.  The state after a call does not depend on the order
\* in which allSafes, allMines or the cells of a sentence are iterated when
\* marking: at the end of every loop of updateKnowledge all iteration orders
\* of the marks give one and the same result, and when updateKnowledge
\* returns, all iteration orders in removeObvious give one and the same
\* knowledge, mines, safes and probs.
C17_OrderIndependent ==
    pc = "update" /\ i > Len(knowledge) =>
        LET f == ApplyMarks(Frame)
            kb == [KB(f) EXCEPT !.knowledge = removeDupes(removeEmpties(@))]
        IN /\ ApplyMarks_AnyOrder(Frame) = {f}
           /\ ~f.changesMade =>
                 {recalcProb(r) : r \in removeObvious_AnyOrder(kb)}
                    = {Stabilize(KB(f))}

\* C17 witness: updateKnowledge is about to mark two safes and a mine.
C17_Witness ==
    /\ pc = "update"
    /\ i > Len(knowledge)
    /\ Cardinality(allSafes) >= 2
    /\ allMines # {}

\* C15: contradiction detection.  add_knowledge(cell, count) with count
\* minus the number of the cell's neighbours already in mines negative fails
\* with a Contradiction: it never goes on to inference with a sentence of
\* negative count, and no such sentence is in the list.
C15_ContradictionRejected ==
    /\ pc = "update" => built.count >= 0
    /\ \A s \in Range(knowledge) : s.count >= 0

\* C16: precondition violation.  add_knowledge called for a cell outside the
\* grid, or for a cell in mines, leaves knowledge, mines, safes, moves_made
\* and probs unchanged.
C16_PreconditionReported ==
    [][pc = "idle" /\ pc' = "update"
         /\ (built'.cell \notin Cells \/ built'.cell \in mines)
       => UNCHANGED <<knowledge, mines, safes, moves_made, probs>>]_vars

\* C21: closed under subset resolution.  Whenever add_knowledge has
\* returned, for every two sentences A and B of knowledge with A.cells a
\* strict subset of B.cells, knowledge holds a sentence equal to
\* (B.cells - A.cells, B.count - A.count).
C21_ClosedUnderSubsetResolution ==
    Returned =>
        \A A, B \in Range(knowledge) :
            StrictSubset(A.cells, B.cells) =>
                Sentence(B.cells \ A.cells, B.count - A.count) \in Range(knowledge)

\* C22: the key set of probs.  In every state reachable by add_knowledge
\* calls for cells of the grid, the keys of probs are exactly the cells of
\* the grid that are in neither mines nor safes, and moves_made is a subset
\* of safes; and no step gives a cell a probs entry it did not have.
C22_ProbsKeys ==
    /\ [](/\ DOMAIN probs = Cells \ (mines \cup safes)
          /\ moves_made \subseteq safes)
    /\ [][DOMAIN probs' \subseteq DOMAIN probs]_vars

\* C22 witness: cells have been marked as mines and, by inference, as
\* safes, while other cells still have their entry.
C22_Witness ==
    /\ moves_made # {}
    /\ mines # {}
    /\ safes \ moves_made # {}
    /\ DOMAIN probs # {}


\* C23: the driver calls add_knowledge(c, n) only for in-bounds cells c that
\* are not mines of the game board, with n the board's true count of mined
\* Moore neighbours of c.  The first call of a move is for the opened cell,
\* every further call is for a neighbour of an earlier called cell whose
\* count is 0, no cell is ingested twice in one move, and a move that opens
\* a cell that is not a mine makes at least the call for that cell.
C23_DriverCalls ==
    /\ \A k \in 1 .. Len(calls) :
          LET c == calls[k][1]
              n == calls[k][2]
          IN /\ c \in Cells \ board
             /\ n = Cardinality(Moore(c) \cap board)
             /\ \A j \in 1 .. Len(calls) : calls[j][1] = c => j = k
             /\ \/ k = 1 /\ c = move
                \/ \E j \in 1 .. k - 1 : /\ calls[j][2] = 0
                                         /\ c \in Moore(calls[j][1])
    /\ Len(calls) <= Cardinality(Cells)
    /\ (move # None /\ move \notin board) => calls # <<>>
    /\ (move = None \/ move \in board) => calls = <<>>

\* A move whose flood fill went through a cell of count 0 and stopped at a
\* cell with a mined neighbour.
C23_Witness ==
    /\ Len(calls) >= 3
    /\ calls[1][2] = 0
    /\ \E k \in 1 .. Len(calls) : calls[k][2] > 0
    /\ Len(consulted) > 0


\* C24: automated play stops.  Under DriverLiveSpec automate, once set, is
\* reset to False.  Every iteration taken with automate set, or setting it,
\* is a reset of the game, or an AI step that opens a mine (lost is set and
\* automate reset), or an AI step in which all three selectors return None
\* (automate reset), or an AI step that leaves automate set and opens a cell
\* that was not in moves_made and is in it afterwards.  moves_made holds only
\* cells of the grid that are not mines, so that the last case happens fewer
\* than Height * width times in a row.
C24_AutomationStops ==
    /\ automate ~> ~automate
    /\ [](moves_made \subseteq Cells \ board)
    /\ [][(automate \/ automate') =>
            \/ /\ consulted' = <<>>
               /\ ~automate'
               /\ moves_made' = {}
            \/ /\ consulted' # <<>>
               /\ move' \in board
               /\ lost'
               /\ ~automate'
            \/ /\ Len(consulted') = 3
               /\ \A k \in 1 .. 3 : consulted'[k].ret = None
               /\ move' = None
               /\ ~automate'
            \/ /\ consulted' # <<>>
               /\ automate'
               /\ move' \in Cells \ board
               /\ move' \notin moves_made
               /\ move' \in moves_made'
               /\ moves_made \subseteq moves_made'
               /\ Cardinality(moves_made') <= Height * width - 1]_vars

\* Automated play in progress: the AI step of this iteration found no safe
\* move, opened a cell by a random move and left automate set, with cells
\* opened before.
C24_Witness ==
    /\ automate
    /\ Len(consulted) = 3
    /\ move \in Cells \ board
    /\ Cardinality(moves_made \ Range([k \in 1 .. Len(calls) |-> calls[k][1]])) >= 1


\* C25: in every state reached from construction by add_knowledge calls,
\* every entry of probs has the value 0, make_calc_move can only return None,
\* and every call of make_calc_move the driver made returned None: the
\* driver never plays a calculated move.
C25_ProbsStayZero ==
    /\ \A c \in DOMAIN probs : probs[c][1] = 0
    /\ make_calc_move(AI) = {Outcome(None, AI)}
    /\ \A k \in 1 .. Len(consulted) :
          consulted[k].tier = "calc" => consulted[k].ret = None

\* The driver has consulted make_calc_move in a game in which cells had been
\* opened before, and recalcProb has run on a sentence with a positive count
\* whose cells have entries in probs.
C25_Witness ==
    /\ \E k \in 1 .. Len(consulted) : consulted[k].tier = "calc"
    /\ move \in Cells \ board
    /\ \E c \in moves_made : \A k \in 1 .. Len(calls) : calls[k][1] # c
    /\ \E s \in Range(knowledge) :
          /\ s.count > 0
          /\ Cardinality(s.cells) >= 2
          /\ s.cells \subseteq DOMAIN probs

====
